---- MODULE Spec2Model ----
(***************************************************************************)
(* Model of i2c_base.py: the I2CDevice adaptors (Generic, Raspberry Pi,    *)
(* FT232H), the tenacity retry wrapper around Generic_I2CDevice.read_bytes *)
(* and I2CBase.configure, which selects the adaptor.                       *)
(*                                                                         *)
(* The transport (periphery.I2C, the raw file objects, the FT232H library) *)
(* is the environment: each of its calls either returns or raises, and the *)
(* model records what it was handed and how often it was invoked.          *)
(***************************************************************************)
EXTENDS Integers, Sequences, FiniteSets, TLC

(* ---------------- program constants ---------------- *)

\* tenacity.stop_after_attempt(12)
MaxAttempts == 12

\* tenacity.wait_fixed(0.5), in tenths of the time unit
WaitFixedTenths == 5

(* ---------------- bounds of the model ---------------- *)

\* read_bytes is called with a length in 0..MaxLen
MaxLen == 2

\* a read_bytes call starts only while the queue holds fewer messages
MaxQueue == 3

\* the count of abandoned open handles saturates here ("this many or more")
MaxUnclosed == 1

(* ---------------- input domains ---------------- *)

\* bytes a device may put into a read-message; 227 is also a register byte,
\* so that a device can echo the register it was sent
ReplyBytes == {0, 227}

\* errno values carried by a transport error
Errnos == {5, 121}

\* values of the block's `address` property, a text, written as the sequence
\* of its characters
AddressInputs == {<<"0", "x", "4", "0">>}

\* address texts for the specification of the selector: hexadecimal, decimal,
\* octal and binary literals, a value above 127, a negative one, and texts
\* int(text, 0) rejects (a decimal with a leading zero, a bare prefix, a bad digit)
SelectAddressInputs ==
    {<<"0", "x", "4", "0">>, <<"6", "4">>, <<"0", "o", "1", "0", "0">>,
     <<"0", "b", "1", "0", "1">>, <<"0", "X", "7", "f">>, <<"0">>,
     <<"2", "0", "0">>, <<"-", "1">>,
     <<"0", "6", "4">>, <<"0", "x">>, <<"4", "g">>}

\* bus ids of the block's `bus` property
BusInputs == {"1"}

\* bus ids for the specification of the selector
SelectBusInputs == {"0", "1"}

IntRegister(n) == [isInt |-> TRUE, n |-> n, bytes |-> <<>>]

BytesRegister(b) == [isInt |-> FALSE, n |-> 0, bytes |-> b]

\* `register` arguments: integers (256 does not fit one byte) and byte strings
RegisterInputs ==
    {IntRegister(227), IntRegister(256), BytesRegister(<<227, 1>>)}

\* `data` arguments of write_list
DataInputs == {<<>>, <<7>>}

NoRegister == BytesRegister(<<>>)

Platforms == {"raspberry_pi", "ft232h", "generic", "unknown"}

(* ---------------- values ---------------- *)

Min(a, b) == IF a < b THEN a ELSE b

\* n zero bytes: [0x00] * n
Zeros(n) == [i \in 1..n |-> 0]

\* all byte strings of length n a device may reply with
Replies(n) == [1..n -> ReplyBytes]

\* I2C.Message(data, read=...)
I2CMessage(data, read) == [data |-> data, read |-> read]

\* what a call hands back to its caller: a return value or a raised exception
Outcome(kind, data, errno, wraps) ==
    [kind |-> kind, data |-> data, errno |-> errno, wraps |-> wraps]

NoOutcome == Outcome("none", <<>>, 0, "none")

Returned(data) == Outcome("return", data, 0, "none")

Raised(kind, errno) == Outcome(kind, <<>>, errno, "none")

\* int.to_bytes(1, 'big') succeeds for 0..255 and raises OverflowError otherwise
FitsOneByte(n) == n >= 0 /\ n <= 255

\* int.to_bytes(1, 'big'): the one byte of n, most significant first
to_bytes(n) == <<n % 256>>

\* the bytes write_list derives from its `register` argument
RegisterBytes(register) ==
    IF register.isInt THEN to_bytes(register.n) ELSE register.bytes

\* write_list raises before doing anything when the integer does not fit
RegisterEncodes(register) == register.isInt => FitsOneByte(register.n)

\* the value of a character as a digit; 36 for a character that is none
DigitOf(c) ==
    CASE c = "0" -> 0 [] c = "1" -> 1 [] c = "2" -> 2 [] c = "3" -> 3
      [] c = "4" -> 4 [] c = "5" -> 5 [] c = "6" -> 6 [] c = "7" -> 7
      [] c = "8" -> 8 [] c = "9" -> 9
      [] c \in {"a", "A"} -> 10 [] c \in {"b", "B"} -> 11
      [] c \in {"c", "C"} -> 12 [] c \in {"d", "D"} -> 13
      [] c \in {"e", "E"} -> 14 [] c \in {"f", "F"} -> 15
      [] OTHER -> 36

\* int(text, 0): the text without its sign
Unsigned(t) == IF Len(t) > 0 /\ t[1] \in {"+", "-"} THEN Tail(t) ELSE t

\* int(text, 0): the base the prefix of an unsigned literal selects
LiteralBase(u) ==
    IF Len(u) >= 2 /\ u[1] = "0"
      THEN CASE u[2] \in {"x", "X"} -> 16
             [] u[2] \in {"o", "O"} -> 8
             [] u[2] \in {"b", "B"} -> 2
             [] OTHER -> 10
      ELSE 10

\* int(text, 0): the digits after the prefix
LiteralDigits(u) == IF LiteralBase(u) = 10 THEN u ELSE SubSeq(u, 3, Len(u))

RECURSIVE DigitsValue(_, _)
\* the number a digit string denotes in a base
DigitsValue(ds, base) ==
    IF ds = <<>>
      THEN 0
      ELSE DigitsValue(SubSeq(ds, 1, Len(ds) - 1), base) * base + DigitOf(ds[Len(ds)])

\* int(text, 0) accepts the text: digits of the base, at least one, and no
\* leading zero in a decimal literal other than zero
LiteralValid(t) ==
    LET u == Unsigned(t)
        ds == LiteralDigits(u)
    IN  /\ ds # <<>>
        /\ \A i \in 1..Len(ds) : DigitOf(ds[i]) < LiteralBase(u)
        /\ (LiteralBase(u) = 10 /\ ds[1] = "0") => \A i \in 1..Len(ds) : ds[i] = "0"

\* int(text, 0)
ParseInt(t) ==
    LET u == Unsigned(t)
        v == DigitsValue(LiteralDigits(u), LiteralBase(u))
    IN  IF Len(t) > 0 /\ t[1] = "-" THEN 0 - v ELSE v

\* the block's properties: platform, address and bus
Properties(platform, a, b) == [platform |-> platform, address |-> a, bus |-> b]

VARIABLES
    props,          \* the block's properties platform, address and bus
    dev,            \* self._i2c: "none" or the class of the adaptor
    address,        \* self._address
    bus,            \* Generic: self._bus
    heldHandles,    \* handles opened by the constructor and kept (self._read, self._write)
    msg,            \* Generic: self._msg, the pending message queue
    pc,             \* "idle", or the position inside a Generic read_bytes call
    op,             \* the operation called last: "none", "configure", "write_list", "read_bytes"
    argReg,         \* `register` argument of the last write_list
    argData,        \* `data` argument of the last write_list
    length,         \* `length` argument of the last read_bytes
    attempt_number, \* tenacity: number of the current attempt
    i2c,            \* Generic read_bytes: the local handle, "none" or "open"
    unclosed,       \* handles left open by attempts that are over
    opens,          \* transport: handles opened during the last call
    transfers,      \* transport: invocations observed during the last call
    failures,       \* transport: invocations of the last call that raised a transient error
    delays,         \* tenacity: sleeps performed during the last call
    submitted,      \* transport: the message list of the last transfer of the last call
    wire,           \* transport: what the last direct write was handed
    lastErr,        \* transport: errno of the last transient error of the call
    replied,        \* transport: data it put into the last read-message of a successful transfer
    staged,         \* the queue as it was when the last call started
    result,         \* what the last call handed to its caller
    slept,          \* tenacity: time slept during the last call, in tenths
    before          \* what the calls before the last one were, summarised

vars == <<props, dev, address, bus, heldHandles, msg, pc, op, argReg, argData, length,
          attempt_number, i2c, unclosed, opens, transfers, failures, delays,
          submitted, wire, lastErr, replied, staged, result, slept, before>>

NoReply == [present |-> FALSE, data |-> <<>>]

Reply(data) == [present |-> TRUE, data |-> data]

NoWire == [written |-> FALSE, register |-> NoRegister, bytes |-> <<>>]

Wire(register, bytes) == [written |-> TRUE, register |-> register, bytes |-> bytes]

\* I2CBase.__init__: no adaptor yet
Init ==
    /\ props = Properties("generic", <<"0", "x", "0", "0">>, "1")
    /\ dev = "none"
    /\ address = 0
    /\ bus = ""
    /\ heldHandles = 0
    /\ msg = <<>>
    /\ pc = "idle"
    /\ op = "none"
    /\ argReg = NoRegister
    /\ argData = <<>>
    /\ length = 0
    /\ attempt_number = 0
    /\ i2c = "none"
    /\ unclosed = 0
    /\ opens = 0
    /\ transfers = 0
    /\ failures = 0
    /\ delays = 0
    /\ submitted = <<>>
    /\ wire = NoWire
    /\ lastErr = 0
    /\ replied = NoReply
    /\ staged = <<>>
    /\ result = NoOutcome
    /\ slept = 0
    /\ before = "new"

(* ---------------- I2CBase.configure ---------------- *)

\* the selector as it would be if two of its branches were exchanged
AdaptorForExchanged(platform) ==
    CASE platform = "raspberry_pi" -> "FT232H_I2CDevice"
      [] platform = "ft232h" -> "RaspberryPi_I2CDevice"
      [] platform = "generic" -> "Generic_I2CDevice"
      [] OTHER -> "I2CDevice"

\* the class configure instantiates for a platform value
AdaptorFor(platform) ==
    CASE platform = "raspberry_pi" -> "RaspberryPi_I2CDevice"
      [] platform = "ft232h" -> "FT232H_I2CDevice"
      [] platform = "generic" -> "Generic_I2CDevice"
      [] OTHER -> "I2CDevice"

\* handles the constructor of a class opens and keeps
ConstructorHandles(class) ==
    IF class = "RaspberryPi_I2CDevice" THEN 2 ELSE 0

\* Generic_I2CDevice.__init__: self._bus
BusPath(class, b) ==
    IF class = "Generic_I2CDevice" THEN "/dev/i2c-" \o b ELSE ""

\* configure: int(self.address(), 0) raises ValueError before any adaptor is
\* made; otherwise the adaptor of the platform is constructed with the number
configure(platform, a, b) ==
    /\ dev = "none"
    /\ op = "none"
    /\ props' = Properties(platform, a, b)
    /\ op' = "configure"
    /\ IF LiteralValid(a)
         THEN /\ dev' = AdaptorFor(platform)
              /\ address' = ParseInt(a)
              /\ bus' = BusPath(AdaptorFor(platform), b)
              /\ heldHandles' = ConstructorHandles(AdaptorFor(platform))
              /\ msg' = <<>>
              /\ result' = Returned(<<>>)
         ELSE /\ result' = Raised("ValueError", 0)
              /\ UNCHANGED <<dev, address, bus, heldHandles, msg>>
    /\ UNCHANGED <<pc, argReg, argData, length, attempt_number, i2c, unclosed,
                   opens, transfers, failures, delays, submitted, wire, lastErr,
                   replied, staged, slept, before>>

(* ---------------- Generic_I2CDevice ---------------- *)

\* write_list as it would be if it appended to the queue instead of replacing it
StagedQueueAppend(queue, register) ==
    Append(queue, I2CMessage(RegisterBytes(register), FALSE))

\* write_list as it would be if it kept a write-message that is already staged
StagedQueueKeep(queue, register) ==
    IF Len(queue) > 0 /\ ~queue[1].read
      THEN queue
      ELSE <<I2CMessage(RegisterBytes(register), FALSE)>>

\* the queue write_list leaves behind
StagedQueue(queue, register) == <<I2CMessage(RegisterBytes(register), FALSE)>>

\* the summary of the calls made so far once a call of operation o that
\* ended in kind is added to the summary h of the calls before it:
\*   "new"  no call yet          "w1"   one write_list that returned
\*   "w2"   two or more write_list in a row that returned
\*   "r"    a read_bytes that returned
\*   "w_rx" a write_list that returned, then a read_bytes that ended in RetryError
\*   "other" anything else
HistoryAfter(h, o, kind) ==
    CASE o \in {"none", "configure"} -> "new"
      [] o = "write_list" /\ kind = "return" ->
            IF h \in {"w1", "w2"} THEN "w2" ELSE "w1"
      [] o = "read_bytes" /\ kind = "return" -> "r"
      [] o = "read_bytes" /\ kind = "RetryError" /\ h \in {"w1", "w2"} -> "w_rx"
      [] OTHER -> "other"

Generic_write_list(register, data) ==
    /\ dev = "Generic_I2CDevice"
    /\ pc = "idle"
    /\ before' = HistoryAfter(before, op, result.kind)
    /\ slept' = 0
    /\ op' = "write_list"
    /\ argReg' = register
    /\ argData' = data
    /\ staged' = msg
    /\ opens' = 0
    /\ transfers' = 0
    /\ failures' = 0
    /\ delays' = 0
    /\ replied' = NoReply
    /\ submitted' = <<>>
    /\ IF RegisterEncodes(register)
         THEN /\ msg' = StagedQueue(msg, register)
              /\ result' = Returned(<<>>)
         ELSE /\ msg' = msg
              /\ result' = Raised("OverflowError", 0)
    /\ UNCHANGED <<props, dev, address, bus, heldHandles, pc, length, attempt_number,
                   i2c, unclosed, wire, lastErr>>

\* a caller invokes the decorated read_bytes: tenacity starts attempt 1
Generic_read_bytes_call(len) ==
    /\ dev = "Generic_I2CDevice"
    /\ pc = "idle"
    /\ Len(msg) < MaxQueue
    /\ before' = HistoryAfter(before, op, result.kind)
    /\ slept' = 0
    /\ op' = "read_bytes"
    /\ length' = len
    /\ attempt_number' = 1
    /\ staged' = msg
    /\ opens' = 0
    /\ transfers' = 0
    /\ failures' = 0
    /\ delays' = 0
    /\ lastErr' = 0
    /\ replied' = NoReply
    /\ result' = NoOutcome
    /\ submitted' = <<>>
    /\ pc' = "open"
    /\ UNCHANGED <<props, dev, address, bus, heldHandles, msg, argReg, argData, i2c,
                   unclosed, wire>>

\* the append as it would be if the message were not flagged as a read
WithUnflaggedMessage(queue, len) == Append(queue, I2CMessage(Zeros(len), FALSE))

\* the queue after the read-message of an attempt is appended
WithReadMessage(queue, len) == Append(queue, I2CMessage(Zeros(len), TRUE))

\* read_bytes as it would be if the read-message were appended before the open
QueueAfterOpenErrorAppended(queue, len) == WithReadMessage(queue, len)

\* the queue read_bytes leaves behind when I2C(self._bus) raised: the append
\* comes after the open, so nothing was appended
QueueAfterOpenError(queue, len) == queue

\* i2c = I2C(self._bus); self._msg.append(...)
Generic_open(ok, errno) ==
    /\ pc = "open"
    /\ opens' = opens + 1
    /\ IF ok
         THEN /\ i2c' = "open"
              /\ msg' = WithReadMessage(msg, length)
              /\ pc' = "transfer"
              /\ result' = result
         ELSE /\ i2c' = "none"
              /\ msg' = QueueAfterOpenError(msg, length)
              /\ pc' = "idle"
              /\ result' = Raised("I2CError", errno)
    /\ UNCHANGED <<props, slept, before, dev, address, bus, heldHandles, op, argReg, argData, length,
                   attempt_number, unclosed, transfers, failures, delays,
                   submitted, wire, lastErr, replied, staged>>

\* the transfer as it would be if the reply never reached the messages
FillNothing(queue, r) == queue

\* the transport writes the device's reply into every read-message
Fill(queue, r) ==
    [i \in 1..Len(queue) |->
        IF queue[i].read THEN I2CMessage(r[i], TRUE) ELSE queue[i]]

\* the replies a device can give to a message list
FillChoices(queue) ==
    {r \in [1..Len(queue) -> UNION {Replies(n) : n \in 0..MaxLen}] :
        \A i \in 1..Len(queue) :
            IF queue[i].read THEN Len(r[i]) = Len(queue[i].data)
                             ELSE r[i] = <<>>}

\* read_bytes as it would be if it took the data of the first message
ReturnDataFirst(queue) == queue[1].data

\* return_data = self._msg[-1].data
ReturnData(queue) == queue[Len(queue)].data

\* read_bytes as it would be if a success removed the read-message only
QueueAfterSuccessPop(queue) == SubSeq(queue, 1, Len(queue) - 1)

\* the queue read_bytes leaves behind when the transfer succeeded
QueueAfterSuccess(queue) == <<>>

\* the queue read_bytes leaves behind when the transfer raised I2CError
QueueAfterI2CError(queue) == SubSeq(queue, 1, Len(queue) - 1)

\* the stop condition as it would be if it allowed one attempt more
StopAfterAttemptLate(n) == n >= MaxAttempts + 1

\* tenacity.stop_after_attempt: no further attempt after this one
StopAfterAttempt(n) == n >= MaxAttempts

\* the retry condition as it would be if it retried on every exception
RetryOnAny(exception) == TRUE

\* tenacity.retry_if_exception_type(tenacity.TryAgain)
RetryOn(exception) == exception = "TryAgain"

\* the handle of an attempt that ends without i2c.close() stays open
Abandon(n) == Min(n + 1, MaxUnclosed)

\* i2c.transfer(...) returned: close, take the data, clear the queue
Generic_transfer_ok(r) ==
    /\ pc = "transfer"
    /\ r \in FillChoices(msg)
    /\ transfers' = transfers + 1
    /\ submitted' = msg
    /\ replied' = Reply(r[Len(msg)])
    /\ i2c' = "none"
    /\ result' = Returned(ReturnData(Fill(msg, r)))
    /\ msg' = QueueAfterSuccess(Fill(msg, r))
    /\ pc' = "idle"
    /\ UNCHANGED <<props, slept, before, dev, address, bus, heldHandles, op, argReg, argData, length,
                   attempt_number, unclosed, opens, failures, delays, wire,
                   lastErr, staged>>

\* i2c.transfer(...) raised I2CError: pop the read-message, raise TryAgain;
\* tenacity then sleeps and retries, or gives up with RetryError
Generic_transfer_I2CError(errno) ==
    /\ pc = "transfer"
    /\ transfers' = transfers + 1
    /\ submitted' = msg
    /\ failures' = failures + 1
    /\ lastErr' = errno
    /\ msg' = QueueAfterI2CError(msg)
    /\ i2c' = "none"
    /\ unclosed' = Abandon(unclosed)
    /\ IF RetryOn("TryAgain") /\ ~StopAfterAttempt(attempt_number)
         THEN /\ pc' = "sleep"
              /\ result' = result
         ELSE /\ pc' = "idle"
              /\ result' = IF RetryOn("TryAgain")
                             THEN Outcome("RetryError", <<>>, errno, "TryAgain")
                             ELSE Outcome("TryAgain", <<>>, errno, "I2CError")
    /\ UNCHANGED <<props, slept, before, dev, address, bus, heldHandles, op, argReg, argData, length,
                   attempt_number, opens, delays, wire, replied, staged>>

\* i2c.transfer(...) raised something that is not I2CError: nothing catches it
Generic_transfer_other ==
    /\ pc = "transfer"
    /\ transfers' = transfers + 1
    /\ submitted' = msg
    /\ i2c' = "none"
    /\ unclosed' = Abandon(unclosed)
    /\ IF RetryOn("OtherError") /\ ~StopAfterAttempt(attempt_number)
         THEN /\ pc' = "sleep"
              /\ result' = result
         ELSE /\ pc' = "idle"
              /\ result' = Raised("OtherError", 0)
    /\ UNCHANGED <<props, slept, before, dev, address, bus, heldHandles, msg, op,
                   argReg, argData, length, attempt_number, opens, failures,
                   delays, wire, lastErr, replied, staged>>

\* the wait as it would be if it grew with the attempt number
WaitGrowing(attempt) == WaitFixedTenths * attempt

\* tenacity.wait_fixed(0.5): the time to sleep after an attempt, in tenths
WaitFixed(attempt) == WaitFixedTenths

\* tenacity.wait_fixed(0.5): sleep, then the next attempt
Generic_sleep ==
    /\ pc = "sleep"
    /\ delays' = delays + 1
    /\ slept' = slept + WaitFixed(attempt_number)
    /\ attempt_number' = attempt_number + 1
    /\ pc' = "open"
    /\ UNCHANGED <<props, before, dev, address, bus, heldHandles, msg, op, argReg,
                   argData, length, i2c, unclosed, opens, transfers, failures,
                   submitted, wire, lastErr, replied, staged, result>>

(* ---------------- RaspberryPi_I2CDevice, FT232H_I2CDevice, I2CDevice ---------------- *)

\* an undecorated method as it would be if it tried a second time after a failure
DirectInvocationsRetry(ok) == IF ok THEN 1 ELSE 2

\* transport invocations made by one call of an undecorated method
DirectInvocations(ok) == 1

\* what a raw, unbuffered read of len bytes can return: up to len bytes
RawReadChoices(len) == UNION {Replies(n) : n \in 0..len}

\* what the FT232H library's readBytes(len) can return
FT232HReadChoices(len) == Replies(len)

\* the bytes RaspberryPi_I2CDevice.write_list hands to self._write.write
RaspberryPi_payload(register, data) == RegisterBytes(register)

\* what FT232H_I2CDevice.write_list hands to self._device.writeList
FT232H_payload(register, data) == Wire(register, data)

\* a call of an undecorated method: the frame shared by the actions below
DirectCall(name, register, data, len) ==
    /\ pc = "idle"
    /\ before' = HistoryAfter(before, op, result.kind)
    /\ slept' = 0
    /\ op' = name
    /\ argReg' = IF name = "write_list" THEN register ELSE argReg
    /\ argData' = IF name = "write_list" THEN data ELSE argData
    /\ length' = IF name = "read_bytes" THEN len ELSE length
    /\ staged' = msg
    /\ opens' = 0
    /\ failures' = 0
    /\ delays' = 0
    /\ replied' = NoReply
    /\ submitted' = <<>>
    /\ UNCHANGED <<props, dev, address, bus, heldHandles, msg, pc, attempt_number, i2c,
                   unclosed, lastErr>>

RaspberryPi_write_list(register, data, ok, errno) ==
    /\ dev = "RaspberryPi_I2CDevice"
    /\ DirectCall("write_list", register, data, 0)
    /\ IF ~RegisterEncodes(register)
         THEN /\ transfers' = 0
              /\ wire' = wire
              /\ result' = Raised("OverflowError", 0)
         ELSE /\ transfers' = DirectInvocations(ok)
              /\ IF ok
                   THEN /\ wire' = Wire(NoRegister, RaspberryPi_payload(register, data))
                        /\ result' = Returned(<<Len(RaspberryPi_payload(register, data))>>)
                   ELSE /\ wire' = wire
                        /\ result' = Raised("OSError", errno)

RaspberryPi_read_bytes(len, data, ok, errno) ==
    /\ dev = "RaspberryPi_I2CDevice"
    /\ DirectCall("read_bytes", NoRegister, <<>>, len)
    /\ data \in RawReadChoices(len)
    /\ transfers' = DirectInvocations(ok)
    /\ wire' = wire
    /\ IF ok
         THEN result' = Returned(data)
         ELSE result' = Raised("OSError", errno)

FT232H_write_list(register, data, ok, errno) ==
    /\ dev = "FT232H_I2CDevice"
    /\ DirectCall("write_list", register, data, 0)
    /\ transfers' = DirectInvocations(ok)
    /\ IF ok
         THEN /\ wire' = FT232H_payload(register, data)
              /\ result' = Returned(<<>>)
         ELSE /\ wire' = wire
              /\ result' = Raised("RuntimeError", errno)

FT232H_read_bytes(len, data, ok, errno) ==
    /\ dev = "FT232H_I2CDevice"
    /\ DirectCall("read_bytes", NoRegister, <<>>, len)
    /\ data \in FT232HReadChoices(len)
    /\ transfers' = DirectInvocations(ok)
    /\ wire' = wire
    /\ IF ok
         THEN result' = Returned(data)
         ELSE result' = Raised("RuntimeError", errno)

\* I2CDevice.write_list: `raise NotImplemented()` calls a non-callable constant
I2CDevice_write_list(register, data) ==
    /\ dev = "I2CDevice"
    /\ DirectCall("write_list", register, data, 0)
    /\ transfers' = 0
    /\ wire' = wire
    /\ result' = Raised("TypeError", 0)

\* I2CDevice.read_bytes: `raise NotImplemented()` calls a non-callable constant
I2CDevice_read_bytes(len) ==
    /\ dev = "I2CDevice"
    /\ DirectCall("read_bytes", NoRegister, <<>>, len)
    /\ transfers' = 0
    /\ wire' = wire
    /\ result' = Raised("TypeError", 0)

Next ==
    \/ \E p \in Platforms, a \in AddressInputs, b \in BusInputs : configure(p, a, b)
    \/ \E r \in RegisterInputs, d \in DataInputs : Generic_write_list(r, d)
    \/ \E len \in 0..MaxLen : Generic_read_bytes_call(len)
    \/ \E ok \in BOOLEAN, e \in Errnos : Generic_open(ok, e)
    \/ \E r \in FillChoices(msg) : Generic_transfer_ok(r)
    \/ \E e \in Errnos : Generic_transfer_I2CError(e)
    \/ Generic_transfer_other
    \/ Generic_sleep
    \/ \E r \in RegisterInputs, d \in DataInputs, ok \in BOOLEAN, e \in Errnos :
           RaspberryPi_write_list(r, d, ok, e)
    \/ \E len \in 0..MaxLen, d \in RawReadChoices(MaxLen), ok \in BOOLEAN, e \in Errnos :
           RaspberryPi_read_bytes(len, d, ok, e)
    \/ \E r \in RegisterInputs, d \in DataInputs, ok \in BOOLEAN, e \in Errnos :
           FT232H_write_list(r, d, ok, e)
    \/ \E len \in 0..MaxLen, d \in RawReadChoices(MaxLen), ok \in BOOLEAN, e \in Errnos :
           FT232H_read_bytes(len, d, ok, e)
    \/ \E r \in RegisterInputs, d \in DataInputs : I2CDevice_write_list(r, d)
    \/ \E len \in 0..MaxLen : I2CDevice_read_bytes(len)

Spec == Init /\ [][Next]_vars

\* the steps of a Generic read_bytes call that is in progress
ReadStep ==
    \/ \E ok \in BOOLEAN, e \in Errnos : Generic_open(ok, e)
    \/ \E r \in FillChoices(msg) : Generic_transfer_ok(r)
    \/ \E e \in Errnos : Generic_transfer_I2CError(e)
    \/ Generic_transfer_other
    \/ Generic_sleep

\* the call runs on the caller's thread and blocks it: once started it keeps
\* going, every open, transfer and sleep coming to an end
FairSpec == Spec /\ WF_vars(ReadStep)

\* the selector over more address texts and bus ids, followed by the calls
\* that are a single step
NextSelect ==
    \/ \E p \in Platforms, a \in SelectAddressInputs, b \in SelectBusInputs :
           configure(p, a, b)
    \/ \E r \in RegisterInputs, d \in DataInputs : Generic_write_list(r, d)
    \/ \E r \in RegisterInputs, d \in DataInputs, ok \in BOOLEAN, e \in Errnos :
           RaspberryPi_write_list(r, d, ok, e)
    \/ \E len \in 0..MaxLen, d \in RawReadChoices(MaxLen), ok \in BOOLEAN, e \in Errnos :
           RaspberryPi_read_bytes(len, d, ok, e)
    \/ \E r \in RegisterInputs, d \in DataInputs, ok \in BOOLEAN, e \in Errnos :
           FT232H_write_list(r, d, ok, e)
    \/ \E len \in 0..MaxLen, d \in RawReadChoices(MaxLen), ok \in BOOLEAN, e \in Errnos :
           FT232H_read_bytes(len, d, ok, e)
    \/ \E r \in RegisterInputs, d \in DataInputs : I2CDevice_write_list(r, d)
    \/ \E len \in 0..MaxLen : I2CDevice_read_bytes(len)

SpecSelect == Init /\ [][NextSelect]_vars

(* ======================= properties ======================= *)

Generic == dev = "Generic_I2CDevice"

\* a Generic read_bytes call is over
ReadDone == Generic /\ op = "read_bytes" /\ pc = "idle"

\* d occurs in s as a contiguous run of bytes
Contains(s, d) ==
    \E i \in 0..(Len(s) - Len(d)) : SubSeq(s, i + 1, i + Len(d)) = d

HasReadMessage(queue) == \E i \in 1..Len(queue) : queue[i].read

\* C1: when the transfers of a Generic read_bytes call raise I2CError k times
\* (k in 0..11) and the next transfer succeeds, the call is over, it returns
\* the data the transport put into the read-message of that transfer, and the
\* transport was invoked exactly k+1 times; data is returned only that way.
RetrySuccess ==
    /\ (Generic /\ op = "read_bytes" /\ replied.present) =>
          /\ pc = "idle"
          /\ result = Returned(replied.data)
          /\ failures \in 0..(MaxAttempts - 1)
          /\ transfers = failures + 1
    /\ (ReadDone /\ result.kind = "return") => replied.present

\* a call that returned data after 11 failed transfers
RetrySuccessWitness ==
    /\ ReadDone
    /\ result.kind = "return"
    /\ failures = 11
    /\ transfers = 12
    /\ length > 0
    /\ result.data # Zeros(length)

\* C2: a Generic read_bytes call all of whose transfers raise I2CError ends
\* after exactly 12 transfers in a RetryError that wraps the TryAgain raised
\* for the last I2CError; no call makes more than 12 transfers, and a call ends
\* in RetryError only when 12 transfers have failed. An I2CError reaches the
\* caller unwrapped only from opening the handle, never from a transfer.
RetryExhaustion ==
    /\ Generic => (transfers <= MaxAttempts /\ failures <= transfers)
    /\ (ReadDone /\ failures = transfers /\ transfers > 0 /\ result.kind # "I2CError") =>
          /\ transfers = 12
          /\ result = Outcome("RetryError", <<>>, lastErr, "TryAgain")
    /\ (ReadDone /\ result.kind \in {"RetryError", "TryAgain"}) =>
          /\ failures = 12
          /\ transfers = 12
          /\ result.errno = lastErr
    /\ (ReadDone /\ result.kind = "I2CError") => opens = transfers + 1

\* a call that ended in RetryError after 12 failed transfers
RetryExhaustionWitness ==
    /\ ReadDone
    /\ result.kind = "RetryError"
    /\ transfers = 12
    /\ delays = 11

\* C3: after a Generic read_bytes call that returned or ended in RetryError the
\* queue holds no read-message: it is empty after a return, and after a
\* RetryError it is empty or holds just the write-message staged before the call.
QueueAfterReadBytes ==
    (ReadDone /\ result.kind \in {"return", "RetryError"}) =>
        /\ ~HasReadMessage(msg)
        /\ result.kind = "return" => msg = <<>>
        /\ result.kind = "RetryError" =>
              \/ msg = <<>>
              \/ (Len(msg) = 1 /\ msg = staged)

\* C4: every message list a Generic read_bytes call submits is at most one
\* write-message, the staged one, followed by exactly one read-message of the
\* requested length.
SubmittedShape ==
    (Generic /\ op = "read_bytes" /\ transfers > 0) =>
        /\ Len(submitted) \in {1, 2}
        /\ submitted[Len(submitted)] = I2CMessage(Zeros(length), TRUE)
        /\ Len(submitted) = 2 =>
              (~submitted[1].read /\ staged = <<submitted[1]>>)

\* C5: constructing a Generic device and calling its write_list open no handle
\* and submit no transfer; construction leaves the queue empty; a write_list
\* that returns leaves exactly one write-message holding the register bytes
\* (the one byte of an integer register), and one that raises leaves the queue
\* as it was.
WriteOnlyStages ==
    (Generic /\ op \in {"configure", "write_list"}) =>
        /\ opens = 0
        /\ transfers = 0
        /\ submitted = <<>>
        /\ i2c = "none"
        /\ heldHandles = 0
        /\ pc = "idle"
        /\ op = "configure" => (msg = <<>> /\ unclosed = 0)
        /\ (op = "write_list" /\ result.kind = "return") =>
              /\ Len(msg) = 1
              /\ ~msg[1].read
              /\ msg[1].data = IF argReg.isInt THEN <<argReg.n>> ELSE argReg.bytes
        /\ (op = "write_list" /\ result.kind # "return") => msg = staged

\* a write_list that replaced a queue that already held a write-message
WriteOnlyStagesWitness ==
    /\ Generic
    /\ op = "write_list"
    /\ result.kind = "return"
    /\ argReg.isInt
    /\ Len(staged) = 1
    /\ staged # msg

\* C6: outside the transfer of a Generic read_bytes call no bus handle is
\* open: every handle an attempt opened was closed when the attempt ended.
HandleClosed ==
    (Generic /\ pc # "transfer") => (i2c = "none" /\ unclosed = 0)

\* C7: a write_list that returns has staged or written the bytes of its
\* `data` argument: they are in the staged write-message (Generic) or in what
\* the transport was handed (Raspberry Pi, FT232H).
DataWritten ==
    (op = "write_list" /\ result.kind = "return") =>
        /\ Generic => Contains(msg[1].data, argData)
        /\ dev = "RaspberryPi_I2CDevice" => Contains(wire.bytes, argData)
        /\ dev = "FT232H_I2CDevice" => Contains(wire.bytes, argData)

\* C8: a read_bytes(length) that returns, on any device, returns exactly
\* length bytes.
NoShortRead ==
    (op = "read_bytes" /\ pc = "idle" /\ result.kind = "return") =>
        Len(result.data) = length

\* C9: a Raspberry Pi or FT232H call whose transport call raises ends with
\* that error after exactly one transport invocation, without a sleep or a
\* further attempt; no call of these devices invokes the transport twice.
DirectNeverRetries ==
    (dev \in {"RaspberryPi_I2CDevice", "FT232H_I2CDevice"}) =>
        /\ transfers <= 1
        /\ delays = 0
        /\ attempt_number = 0
        /\ pc = "idle"
        /\ result.kind \in {"OSError", "RuntimeError"} =>
              (transfers = 1 /\ result.wraps = "none")

\* a Raspberry Pi read_bytes whose read raised
DirectNeverRetriesWitness ==
    /\ dev = "RaspberryPi_I2CDevice"
    /\ op = "read_bytes"
    /\ result.kind = "OSError"
    /\ transfers = 1

BaseNotImplemented ==
    (dev = "I2CDevice" /\ op \in {"write_list", "read_bytes"}) =>
        /\ result.kind = "NotImplementedError"
        /\ pc = "idle"
        /\ opens = 0
        /\ transfers = 0
        /\ delays = 0
        /\ heldHandles = 0

\* the numeric value of the address literals, written out
LiteralTable(t) ==
    CASE t = <<"0", "x", "4", "0">> -> 64
      [] t = <<"6", "4">> -> 64
      [] t = <<"0", "o", "1", "0", "0">> -> 64
      [] t = <<"0", "b", "1", "0", "1">> -> 5
      [] t = <<"0", "X", "7", "f">> -> 127
      [] t = <<"0">> -> 0
      [] t = <<"2", "0", "0">> -> 200
      [] t = <<"-", "1">> -> 0 - 1
      [] OTHER -> 0 - 1000

\* C12: after configure, for each of the platforms raspberry_pi, ft232h and
\* generic the one adaptor is of the matching class, its address is the
\* numeric value of the address text, and the Generic adaptor's bus path is
\* "/dev/i2c-" followed by the bus id; configure makes an adaptor for every
\* address text that is a literal.
SelectorMatches ==
    /\ dev # "none" =>
          /\ props.platform = "raspberry_pi" => dev = "RaspberryPi_I2CDevice"
          /\ props.platform = "ft232h" => dev = "FT232H_I2CDevice"
          /\ props.platform = "generic" => dev = "Generic_I2CDevice"
          /\ address = LiteralTable(props.address)
          /\ Generic => bus = "/dev/i2c-" \o props.bus
          /\ ~Generic => bus = ""
    /\ (op # "none" /\ LiteralTable(props.address) # 0 - 1000) => dev # "none"

\* an FT232H adaptor made from the address text 0X7f
SelectorMatchesWitness ==
    /\ dev = "FT232H_I2CDevice"
    /\ props.platform = "ft232h"
    /\ props.address = <<"0", "X", "7", "f">>
    /\ address = 127

\* the first len bytes of w, padded with zero bytes: what a device that echoes
\* the bytes written to it puts into a read-message of length len
Echo(w, len) == [i \in 1..len |-> IF i <= Len(w) THEN w[i] ELSE 0]

\* C13: when a Generic read_bytes(L) submits a staged register write and its
\* read-message, and the transport answers with the echo of the written bytes,
\* the call returns exactly those L echoed bytes.
RoundTrip ==
    (/\ ReadDone
     /\ replied.present
     /\ Len(submitted) = 2
     /\ ~submitted[1].read
     /\ replied.data = Echo(submitted[1].data, length)) =>
        /\ result.kind = "return"
        /\ Len(result.data) = length
        /\ result.data = Echo(submitted[1].data, length)

\* write_list(227, ...) then read_bytes(2) answered with the echo 227, 0
RoundTripWitness ==
    /\ ReadDone
    /\ argReg = IntRegister(227)
    /\ submitted = <<I2CMessage(<<227>>, FALSE), I2CMessage(<<0, 0>>, TRUE)>>
    /\ result = Returned(<<227, 0>>)

\* C14: when read_bytes(n) is the first call on a newly constructed Generic
\* device, every transfer of the call submits exactly one message, a
\* read-message of n zero bytes, and no write-message.
PlainRead ==
    (Generic /\ op = "read_bytes" /\ before = "new" /\ transfers > 0) =>
        /\ staged = <<>>
        /\ Len(submitted) = 1
        /\ submitted[1].read
        /\ submitted[1].data = Zeros(length)
        /\ Len(submitted[1].data) = length

\* the third transfer of a read_bytes(2) that is the first call on the device
PlainReadWitness ==
    /\ Generic
    /\ op = "read_bytes"
    /\ before = "new"
    /\ transfers = 3
    /\ length = 2
    /\ submitted = <<I2CMessage(<<0, 0>>, TRUE)>>

\* C15: within a Generic read_bytes call a delay of 0.5 (5 tenths) lies
\* between every failed attempt and the attempt after it and nowhere else:
\* none before the first attempt, none after a success or after the last
\* failed attempt, so a call with k failures and then a success slept k times.
DelayOrdering ==
    (Generic /\ op = "read_bytes") =>
        /\ slept = 5 * delays
        /\ pc \in {"open", "transfer"} =>
              (delays = attempt_number - 1 /\ delays = transfers /\ delays = failures)
        /\ pc = "sleep" => (delays = transfers - 1 /\ delays = failures - 1)
        /\ (pc = "idle" /\ result.kind = "return") =>
              (delays = failures /\ delays = transfers - 1)
        /\ (pc = "idle" /\ result.kind = "RetryError") => delays = failures - 1

\* a call that failed three times, slept three times 0.5, and then returned
DelayOrderingWitness ==
    /\ ReadDone
    /\ result.kind = "return"
    /\ failures = 3
    /\ delays = 3
    /\ slept = 15

\* C16: when every open, transfer and sleep comes to an end, every Generic
\* read_bytes call comes to an end, by returning data or by raising, and it
\* never makes more than 12 attempts or 12 transfers.
Termination ==
    /\ [](Generic => (attempt_number <= 12 /\ transfers <= 12 /\ opens <= 12))
    /\ (pc # "idle") ~> (pc = "idle" /\ result.kind # "none")

\* a call that ended in its twelfth attempt, by an error that is not I2CError
TerminationWitness ==
    /\ ReadDone
    /\ attempt_number = 12
    /\ transfers = 12
    /\ result.kind = "OtherError"

\* the write-message write_list stages for the register of the last write_list
LastWrite ==
    I2CMessage(IF argReg.isInt THEN <<argReg.n>> ELSE argReg.bytes, FALSE)

\* the read-message of the call
ReadMessage == I2CMessage(Zeros(length), TRUE)

\* C17: when two or more write_list calls in a row precede a Generic
\* read_bytes, every transfer of that call carries the write-message of the
\* last write_list and the read-message, and no other message: what the
\* earlier write_list calls staged is not submitted.
LastWriteWins ==
    (Generic /\ op = "read_bytes" /\ before = "w2" /\ transfers > 0) =>
        /\ submitted = <<LastWrite, ReadMessage>>
        /\ staged = <<LastWrite>>

\* a second transfer after write_list calls in a row, the last one staging 227, 1
LastWriteWinsWitness ==
    /\ Generic
    /\ op = "read_bytes"
    /\ before = "w2"
    /\ transfers = 2
    /\ argReg = BytesRegister(<<227, 1>>)
    /\ submitted[1].data = <<227, 1>>

\* C18: a Generic read_bytes that directly follows a read_bytes that returned
\* submits its read-message alone, the staged write-message having been
\* consumed; one that directly follows a write_list and a read_bytes that
\* ended in RetryError submits the preserved write-message again, followed by
\* its read-message.
WriteConsumedOnSuccess ==
    /\ (Generic /\ op = "read_bytes" /\ before = "r") =>
          /\ staged = <<>>
          /\ transfers > 0 => submitted = <<ReadMessage>>
    /\ (Generic /\ op = "read_bytes" /\ before = "w_rx") =>
          /\ staged = <<LastWrite>>
          /\ transfers > 0 => submitted = <<LastWrite, ReadMessage>>

\* a transfer of the read_bytes after a write_list and an exhausted read_bytes
WriteConsumedOnSuccessWitness ==
    /\ Generic
    /\ op = "read_bytes"
    /\ before = "w_rx"
    /\ transfers = 1
    /\ submitted = <<I2CMessage(<<227>>, FALSE), I2CMessage(<<0>>, TRUE)>>

\* C19: whenever no Generic read_bytes call is in progress the queue holds at
\* most one message and no read-message, whatever the outcomes of the calls
\* made so far.
QueueAtRest ==
    (Generic /\ pc = "idle") => (Len(msg) <= 1 /\ ~HasReadMessage(msg))

\* C20: a Generic read_bytes call that ends because opening the handle raised
\* submitted no transfer in that attempt and made no further attempt, the
\* I2CError reaches the caller, and the queue is as it was before the call;
\* when the first open fails there was one open and no transfer at all.
OpenFailure ==
    (ReadDone /\ result.kind = "I2CError") =>
        /\ msg = staged
        /\ opens = attempt_number
        /\ transfers = opens - 1
        /\ failures = transfers
        /\ delays = transfers
        /\ i2c = "none"
        /\ result.wraps = "none"
        /\ attempt_number = 1 => (opens = 1 /\ transfers = 0 /\ submitted = <<>>)

\* a call after write_list whose first open raised
OpenFailureWitness ==
    /\ ReadDone
    /\ result.kind = "I2CError"
    /\ opens = 1
    /\ transfers = 0
    /\ Len(msg) = 1
    /\ msg = staged

====
